---- MODULE Spec2Model ----
(***************************************************************************)
(* Model of py_crypto_hd_wallet/bip/hd_wallet_bip.py: the HdWalletBip      *)
(* object (its stored BIP object and its data dictionary), its             *)
(* constructor, Generate and IsWatchOnly.                                  *)
(*                                                                         *)
(* Generate is one action.  Its body is a chain of steps over a frame      *)
(* [self, bip_obj, err, nderiv, visited]: self is the wallet object,      *)
(* bip_obj the local variable of Generate, err the exception raised so far *)
(* ("ok" when none), nderiv the number of derivation calls made, visited   *)
(* the keys that were captured, in order.  A raised exception              *)
(* skips every later step, and whatever was written to self.m_data before  *)
(* it stays written, as in Python.                                         *)
(*                                                                         *)
(* Key indices are IndexBits wide instead of 32 (TLC integers are 32 bit   *)
(* signed, 2^32-1 is not representable): KEY_INDEX_MAX_VAL is              *)
(* 2^IndexBits - 1 and the hardened bit is 2^(IndexBits-1).                *)
(***************************************************************************)
EXTENDS Integers, Sequences, FiniteSets, TLC

VARIABLES
    m_bip_obj,      \* self.m_bip_obj
    m_data,         \* the data dictionary written by _SetData: dict key -> value
    ctor,           \* the constructor's arguments (history)
    last_kwargs,    \* the keyword arguments of the last Generate call (history)
    last_err,       \* its outcome: "none" before any call, "ok", or the exception
    last_nderiv,    \* the number of derivation calls it made
    last_visited,   \* the keys it captured, in the order of capture
    all_ok,         \* TRUE while no Generate call has failed
    watch_only_ret  \* <<>> or <<the value the last IsWatchOnly() returned>>

vars ==
    <<m_bip_obj, m_data, ctor, last_kwargs, last_err, last_nderiv, last_visited, all_ok,
      watch_only_ret>>

----------------------------------------------------------------------------
(* Bounds and constants *)

IndexBits == 6

RECURSIVE Pow2(_)
Pow2(n) == IF n = 0 THEN 1 ELSE 2 * Pow2(n - 1)

\* Bip32KeyDataConst.KEY_INDEX_MAX_VAL (2^32 - 1 in the library)
KEY_INDEX_MAX_VAL == Pow2(IndexBits) - 1

\* the hardened bit of a key index (bit 31 in the library)
KEY_INDEX_HARDENED_BIT == Pow2(IndexBits - 1)

\* the greatest depth of an extended key
KEY_DEPTH_MAX == 255

\* Bip44Levels
MASTER == 0
PURPOSE == 1
COIN == 2
ACCOUNT == 3
CHANGE == 4
ADDRESS_INDEX == 5

Bip44Levels == {MASTER, PURPOSE, COIN, ACCOUNT, CHANGE, ADDRESS_INDEX}

\* HdWalletBipConst.DATA_TYPE_TO_DICT_KEY
DATA_TYPE_TO_DICT_KEY ==
    [WALLET_NAME |-> "wallet_name", COIN_NAME |-> "coin_name", SPEC_NAME |-> "spec_name",
     MNEMONIC |-> "mnemonic", PASSPHRASE |-> "passphrase", SEED_BYTES |-> "seed_bytes",
     ACCOUNT_IDX |-> "account_idx", CHANGE_IDX |-> "change_idx",
     MASTER_KEY |-> "master_key", PURPOSE_KEY |-> "purpose_key", COIN_KEY |-> "coin_key",
     ACCOUNT_KEY |-> "account_key", CHANGE_KEY |-> "change_key",
     ADDRESS_OFF |-> "address_off", ADDRESS |-> "address"]

\* the dictionary key that holds the key of a level
LevelKeyName(lvl) ==
    CASE lvl = MASTER -> "master_key"
      [] lvl = PURPOSE -> "purpose_key"
      [] lvl = COIN -> "coin_key"
      [] lvl = ACCOUNT -> "account_key"
      [] lvl = CHANGE -> "change_key"

LevelKeyNames == {LevelKeyName(l) : l \in MASTER..CHANGE}

\* the dictionary keys Generate may write
GenerateKeys == LevelKeyNames \cup {"account_idx", "change_idx", "address_off", "address"}

----------------------------------------------------------------------------
(* The BIP object (bip_utils Bip44Base over a BIP32 extended key).         *)
(* A key is [seed, level, pub, depth, path]: the seed it descends from,    *)
(* its level, whether it is public-only, its depth, and the child indices  *)
(* derived since the key the wallet was constructed from.                  *)

Seeds == {"seed_i", "seed_n"}

IsLevel(bip_obj, lvl) == bip_obj.level = lvl

IsPublicOnly(bip_obj) == bip_obj.pub

\* HdWalletBipChanges, an IntEnum: the members and their int() value
HdWalletBipChanges == {"CHAIN_EXT", "CHAIN_INT"}

IntOfChange(change_idx) == IF change_idx = "CHAIN_EXT" THEN 0 ELSE 1

IsKeyIndex(i) == i >= 0 /\ i <= KEY_INDEX_MAX_VAL

IsHardened(i) == i >= KEY_INDEX_HARDENED_BIT

\* Bip32KeyIndex.HardenIndex: sets the hardened bit
HardenIndex(i) == IF IsHardened(i) THEN i ELSE i + KEY_INDEX_HARDENED_BIT

\* the derivation that BIP32 declares invalid (IL >= n or a zero key): it is
\* a fixed property of the parent key and the index; of the two seeds,
\* "seed_i" has such a child, the address of index 1
IsUnlucky(parent, index) ==
    parent.seed = "seed_i" /\ parent.level = CHANGE /\ index = 1

\* DeriveChild: [err, key]
DeriveChild(parent, index) ==
    IF ~IsKeyIndex(index) THEN [err |-> "KeyIndexError", key |-> parent]
    ELSE IF IsHardened(index) /\ parent.pub
        THEN [err |-> "PrivateKeyRequiredError", key |-> parent]
    ELSE IF IsUnlucky(parent, index)
        THEN [err |-> "InvalidDerivationError", key |-> parent]
    ELSE IF parent.depth + 1 > KEY_DEPTH_MAX
        THEN [err |-> "DepthOverflowError", key |-> parent]
    ELSE [err |-> "ok",
          key |-> [seed |-> parent.seed, level |-> parent.level + 1, pub |-> parent.pub,
                   depth |-> parent.depth + 1, path |-> Append(parent.path, index)]]

\* the purpose and coin indices of the BIP class and coin (44', 0' for BIP44 Bitcoin)
PurposeIndex == 4
CoinIndex == 0

Purpose(bip_obj) == DeriveChild(bip_obj, HardenIndex(PurposeIndex))

Coin(bip_obj) == DeriveChild(bip_obj, HardenIndex(CoinIndex))

Account(bip_obj, acc_idx) ==
    IF ~IsKeyIndex(acc_idx) THEN [err |-> "KeyIndexError", key |-> bip_obj]
    ELSE DeriveChild(bip_obj, HardenIndex(acc_idx))

Change(bip_obj, change_idx) == DeriveChild(bip_obj, IntOfChange(change_idx))

AddressIndex(bip_obj, addr_idx) == DeriveChild(bip_obj, addr_idx)

----------------------------------------------------------------------------
(* The values stored in the dictionary *)

KeyId(bip_obj) ==
    [seed |-> bip_obj.seed, level |-> bip_obj.level, depth |-> bip_obj.depth,
     path |-> bip_obj.path]

\* HdWalletBipKeys(bip_obj): the public data of the key, and the private
\* data when the key has it
HdWalletBipKeys(bip_obj) ==
    IF bip_obj.pub
    THEN [pub_key |-> KeyId(bip_obj)]
    ELSE [pub_key |-> KeyId(bip_obj), priv_key |-> KeyId(bip_obj)]

HasPrivate(keys) == "priv_key" \in DOMAIN keys

\* one entry of HdWalletBipAddresses
AddressEntry(index, parent, bip_obj) ==
    [index |-> index, parent |-> KeyId(parent), address |-> <<"addr", KeyId(bip_obj)>>,
     keys |-> HdWalletBipKeys(bip_obj)]

\* the key of the i-th address (i from 0): the object itself when it is at
\* address index level, its child off + i otherwise
AddressKey(bip_obj, off, i) ==
    IF IsLevel(bip_obj, ADDRESS_INDEX) THEN [err |-> "ok", key |-> bip_obj]
    ELSE AddressIndex(bip_obj, off + i)

\* HdWalletBipAddresses(bip_obj, addr_num, addr_off): [err, nderiv, addr];
\* the first derivation that fails aborts the enumeration
HdWalletBipAddresses(bip_obj, addr_num, addr_off) ==
    LET failed == {i \in 0..(addr_num - 1) : AddressKey(bip_obj, addr_off, i).err # "ok"}
        first == CHOOSE i \in failed : \A j \in failed : i <= j
        steps == IF IsLevel(bip_obj, ADDRESS_INDEX) THEN 0 ELSE 1
    IN IF failed # {}
       THEN [err |-> AddressKey(bip_obj, addr_off, first).err,
             nderiv |-> steps * (first + 1), addr |-> <<>>]
       ELSE [err |-> "ok", nderiv |-> steps * addr_num,
             addr |-> [n \in 1..addr_num |->
                         AddressEntry(addr_off + n - 1, bip_obj,
                                      AddressKey(bip_obj, addr_off, n - 1).key)]]

\* HdWalletBase._SetData: self.m_data[dict key of data_type] = value
SetData(data, data_type, value) ==
    LET k == DATA_TYPE_TO_DICT_KEY[data_type]
    IN [x \in (DOMAIN data) \cup {k} |-> IF x = k THEN value ELSE data[x]]

\* Utils.BytesToHexString, two lowercase hex digits per byte
HexDigit(n) == SubSeq("0123456789abcdef", n + 1, n + 1)

RECURSIVE BytesToHexString(_)
BytesToHexString(bytes) ==
    IF bytes = <<>> THEN ""
    ELSE HexDigit(Head(bytes) \div 16) \o HexDigit(Head(bytes) % 16)
         \o BytesToHexString(Tail(bytes))

----------------------------------------------------------------------------
(* HdWalletBip *)

\* the object and the dictionary right after super().__init__ and
\* self.m_bip_obj = bip_obj
EmptyData == [x \in {} |-> ""]

\* __InitData that stores the passphrase only when one is given
InitDataPassphraseIfGiven(data, wallet_name, bip_obj, mnemonic, passphrase, seed_bytes) ==
    LET d1 == SetData(data, "WALLET_NAME", wallet_name)
        d2 == SetData(d1, "SPEC_NAME", bip_obj.spec_name)
        d3 == SetData(d2, "COIN_NAME",
                      bip_obj.coin_name \o " (" \o bip_obj.coin_abbr \o ")")
        d4 == IF mnemonic # "" THEN SetData(d3, "MNEMONIC", mnemonic) ELSE d3
        d5 == IF passphrase # "" THEN SetData(d4, "PASSPHRASE", passphrase) ELSE d4
        d6 == IF seed_bytes # <<>>
              THEN SetData(d5, "SEED_BYTES", BytesToHexString(seed_bytes))
              ELSE d5
    IN d6

\* __InitData
InitData(data, wallet_name, bip_obj, mnemonic, passphrase, seed_bytes) ==
    LET d1 == SetData(data, "WALLET_NAME", wallet_name)
        d2 == SetData(d1, "SPEC_NAME", bip_obj.spec_name)
        d3 == SetData(d2, "COIN_NAME",
                      bip_obj.coin_name \o " (" \o bip_obj.coin_abbr \o ")")
        d4 == IF mnemonic # ""
              THEN SetData(SetData(d3, "MNEMONIC", mnemonic), "PASSPHRASE", passphrase)
              ELSE d3
        d5 == IF seed_bytes # <<>>
              THEN SetData(d4, "SEED_BYTES", BytesToHexString(seed_bytes))
              ELSE d4
    IN d5

\* __init__: the constructed object
HdWalletBip(c) ==
    [m_bip_obj |-> c.bip_obj,
     m_data |-> InitData(EmptyData, c.wallet_name, c.bip_obj, c.mnemonic, c.passphrase,
                         c.seed_bytes)]

\* kwargs.get(name, default)
Get(kwargs, name, default) == IF name \in DOMAIN kwargs THEN kwargs[name] ELSE default

\* GetParameters with another default for the number of addresses
GetParametersTenAddresses(kwargs) ==
    [acc_idx |-> Get(kwargs, "acc_idx", 0),
     change_idx |-> Get(kwargs, "change_idx", "CHAIN_EXT"),
     addr_num |-> Get(kwargs, "addr_num", 10),
     addr_off |-> Get(kwargs, "addr_off", 0)]

\* Generate, "Get parameters"
GetParameters(kwargs) ==
    [acc_idx |-> Get(kwargs, "acc_idx", 0),
     change_idx |-> Get(kwargs, "change_idx", "CHAIN_EXT"),
     addr_num |-> Get(kwargs, "addr_num", 20),
     addr_off |-> Get(kwargs, "addr_off", 0)]


\* CheckParameters with the offset bound off by one (>= for >)
CheckParametersOffByOne(p) ==
    IF p.change_idx \notin {"CHAIN_EXT", "CHAIN_INT"} THEN "TypeError"
    ELSE IF p.addr_num < 0 \/ p.addr_num > KEY_INDEX_MAX_VAL THEN "ValueError"
    ELSE IF p.addr_off < 0 \/ (p.addr_off + p.addr_num) >= KEY_INDEX_MAX_VAL THEN "ValueError"
    ELSE "ok"

\* CheckParameters with the range checks made before the change index check
CheckParametersRangeFirst(p) ==
    IF p.addr_num < 0 \/ p.addr_num > KEY_INDEX_MAX_VAL THEN "ValueError"
    ELSE IF p.addr_off < 0 \/ (p.addr_off + p.addr_num) > KEY_INDEX_MAX_VAL THEN "ValueError"
    ELSE IF p.change_idx \notin {"CHAIN_EXT", "CHAIN_INT"} THEN "TypeError"
    ELSE "ok"

\* Generate, "Check parameters": the exception raised, "ok" when none
CheckParameters(p) ==
    IF p.change_idx \notin HdWalletBipChanges THEN "TypeError"
    ELSE IF p.addr_num < 0 \/ p.addr_num > KEY_INDEX_MAX_VAL THEN "ValueError"
    ELSE IF p.addr_off < 0 \/ (p.addr_off + p.addr_num) > KEY_INDEX_MAX_VAL THEN "ValueError"
    ELSE "ok"

\* self._SetData(...) inside Generate
SetDataF(f, data_type, value) ==
    [f EXCEPT !.self.m_data = SetData(@, data_type, value)]

\* __SetKeys
SetKeys(f, data_type, bip_obj) ==
    [SetDataF(f, data_type, HdWalletBipKeys(bip_obj)) EXCEPT
        !.visited = Append(@, KeyId(bip_obj))]


\* Derive that walks the stored object: self.m_bip_obj = self.m_bip_obj.<Derivation>(...)
DeriveStored(f, r) ==
    IF r.err = "ok"
    THEN [f EXCEPT !.bip_obj = r.key, !.self.m_bip_obj = r.key, !.nderiv = @ + 1]
    ELSE [f EXCEPT !.err = r.err, !.nderiv = @ + 1]

\* Derive that swallows the exception of the derivation and goes on
DeriveSwallow(f, r) ==
    IF r.err = "ok"
    THEN [f EXCEPT !.bip_obj = r.key, !.nderiv = @ + 1]
    ELSE [f EXCEPT !.nderiv = @ + 1]

\* Derive that drops the derived object: bip_obj.<Derivation>(...) unassigned
DeriveDiscard(f, r) ==
    IF r.err = "ok"
    THEN [f EXCEPT !.nderiv = @ + 1]
    ELSE [f EXCEPT !.err = r.err, !.nderiv = @ + 1]

\* bip_obj = bip_obj.<Derivation>(...): rebinds the local variable, or raises
Derive(f, r) ==
    IF r.err = "ok"
    THEN [f EXCEPT !.bip_obj = r.key, !.nderiv = @ + 1]
    ELSE [f EXCEPT !.err = r.err, !.nderiv = @ + 1]

\* "Save the BIP object": the frame Generate starts from
SaveBipObj(self, err) ==
    [self |-> self, bip_obj |-> self.m_bip_obj, err |-> err, nderiv |-> 0, visited |-> <<>>]

MasterStep(f, p) ==
    IF f.err # "ok" THEN f
    ELSE IF IsLevel(f.bip_obj, MASTER)
        THEN Derive(SetKeys(f, "MASTER_KEY", f.bip_obj), Purpose(f.bip_obj))
    ELSE f

PurposeStep(f, p) ==
    IF f.err # "ok" THEN f
    ELSE IF IsLevel(f.bip_obj, PURPOSE)
        THEN Derive(SetKeys(f, "PURPOSE_KEY", f.bip_obj), Coin(f.bip_obj))
    ELSE f

CoinStep(f, p) ==
    IF f.err # "ok" THEN f
    ELSE IF IsLevel(f.bip_obj, COIN)
        THEN Derive(SetDataF(SetKeys(f, "COIN_KEY", f.bip_obj), "ACCOUNT_IDX", p.acc_idx),
                    Account(f.bip_obj, p.acc_idx))
    ELSE f

\* AccountStep that stores the account key under the change key's data type
AccountStepWrongKey(f, p) ==
    IF f.err # "ok" THEN f
    ELSE IF IsLevel(f.bip_obj, ACCOUNT)
        THEN Derive(SetDataF(SetKeys(f, "CHANGE_KEY", f.bip_obj), "CHANGE_IDX",
                             IntOfChange(p.change_idx)),
                    Change(f.bip_obj, p.change_idx))
    ELSE f

AccountStep(f, p) ==
    IF f.err # "ok" THEN f
    ELSE IF IsLevel(f.bip_obj, ACCOUNT)
        THEN Derive(SetDataF(SetKeys(f, "ACCOUNT_KEY", f.bip_obj), "CHANGE_IDX",
                             IntOfChange(p.change_idx)),
                    Change(f.bip_obj, p.change_idx))
    ELSE f

\* self._SetData(ADDRESS, HdWalletBipAddresses(...)): the constructor runs
\* first, and nothing is stored when it raises
SetAddresses(f, a) ==
    IF a.err = "ok"
    THEN [SetDataF(f, "ADDRESS", a.addr) EXCEPT !.nderiv = @ + a.nderiv]
    ELSE [f EXCEPT !.err = a.err, !.nderiv = @ + a.nderiv]


\* the address index branch enumerating the requested range
SingleAddressRange(f, p) ==
    SetAddresses(f, HdWalletBipAddresses(f.bip_obj, p.addr_num, p.addr_off))

\* the address index branch: one address, the key itself
SingleAddress(f, p) == SetAddresses(f, HdWalletBipAddresses(f.bip_obj, 1, 0))


\* ChangeStep that stores the offset also when it is 0
ChangeStepAlwaysOffset(f, p) ==
    IF f.err # "ok" THEN f
    ELSE IF IsLevel(f.bip_obj, CHANGE)
        THEN LET f1 == SetKeys(f, "CHANGE_KEY", f.bip_obj)
                 f2 == SetDataF(f1, "ADDRESS_OFF", p.addr_off)
             IN SetAddresses(f2, HdWalletBipAddresses(f.bip_obj, p.addr_num, p.addr_off))
    ELSE SingleAddress(f, p)

\* ChangeStep that enumerates from index 0 whatever the offset
ChangeStepNoOffset(f, p) ==
    IF f.err # "ok" THEN f
    ELSE IF IsLevel(f.bip_obj, CHANGE)
        THEN LET f1 == SetKeys(f, "CHANGE_KEY", f.bip_obj)
                 f2 == IF p.addr_off # 0 THEN SetDataF(f1, "ADDRESS_OFF", p.addr_off) ELSE f1
             IN SetAddresses(f2, HdWalletBipAddresses(f.bip_obj, p.addr_num, 0))
    ELSE SingleAddress(f, p)

ChangeStep(f, p) ==
    IF f.err # "ok" THEN f
    ELSE IF IsLevel(f.bip_obj, CHANGE)
        THEN LET f1 == SetKeys(f, "CHANGE_KEY", f.bip_obj)
                 f2 == IF p.addr_off # 0 THEN SetDataF(f1, "ADDRESS_OFF", p.addr_off) ELSE f1
             IN SetAddresses(f2, HdWalletBipAddresses(f.bip_obj, p.addr_num, p.addr_off))
    ELSE SingleAddress(f, p)


\* Generate that checks its parameters after the master step
GenerateLateCheck(self, kwargs) ==
    LET p == GetParameters(kwargs)
        f0 == MasterStep(SaveBipObj(self, "ok"), p)
        f1 == IF f0.err = "ok" THEN [f0 EXCEPT !.err = CheckParameters(p)] ELSE f0
    IN ChangeStep(AccountStep(CoinStep(PurposeStep(f1, p), p), p), p)

\* Generate that empties the dictionary before it regenerates
GenerateClearing(self, kwargs) ==
    LET p == GetParameters(kwargs)
        f0 == SaveBipObj([self EXCEPT !.m_data = EmptyData], CheckParameters(p))
    IN ChangeStep(AccountStep(CoinStep(PurposeStep(MasterStep(f0, p), p), p), p), p)

\* Generate(**kwargs): the frame it ends in
Generate(self, kwargs) ==
    LET p == GetParameters(kwargs)
        f0 == SaveBipObj(self, CheckParameters(p))
    IN ChangeStep(AccountStep(CoinStep(PurposeStep(MasterStep(f0, p), p), p), p), p)


\* IsWatchOnly with the test inverted
IsWatchOnlyInverted(self) == ~IsPublicOnly(self.m_bip_obj)

IsWatchOnly(self) == IsPublicOnly(self.m_bip_obj)

----------------------------------------------------------------------------
(* Inputs *)

\* the keys a wallet is constructed from: every level, with and without
\* private material; a key of level L has depth L
BipObjs ==
    {[seed |-> s, level |-> l, pub |-> b, depth |-> l, path |-> <<>>,
      spec_name |-> "BIP-0044", coin_name |-> "Bitcoin", coin_abbr |-> "BTC"] :
        s \in Seeds, l \in Bip44Levels, b \in BOOLEAN}

CtorArgs ==
    {[wallet_name |-> "wallet", bip_obj |-> k, mnemonic |-> "", passphrase |-> "",
      seed_bytes |-> <<>>] : k \in BipObjs}

\* the constructor's optional arguments, each empty and not, for a wallet
\* made from a seed (a private master key) and for an imported public
\* change-level key
NamedBipObjs ==
    {k \in BipObjs : k.seed = "seed_n"
                      /\ ((k.level = MASTER /\ ~k.pub) \/ (k.level = CHANGE /\ k.pub))}

NamedCtorArgs ==
    {[wallet_name |-> "wallet", bip_obj |-> k, mnemonic |-> m, passphrase |-> p,
      seed_bytes |-> b] :
        k \in NamedBipObjs, m \in {"", "abandon about"}, p \in {"", "pw"},
        b \in {<<>>, <<0, 171>>}}

\* a keyword argument is given or left out
NoArgs == [x \in {} |-> 0]

Arg(name, values) == {[x \in {name} |-> v] : v \in values}

Opt(name, values) == {NoArgs} \cup Arg(name, values)

Merge(a, b) == [x \in (DOMAIN a) \cup (DOMAIN b) |-> IF x \in DOMAIN a THEN a[x] ELSE b[x]]

\* address ranges: the defaults, each bound of the range check from both
\* sides, and ranges that succeed with and without an offset
RangeArgs ==
    {Merge(n, o) : n \in Opt("addr_num", {-1, 0, KEY_INDEX_MAX_VAL + 1}),
                   o \in Opt("addr_off", {-1})}
    \cup {Merge(n, o) : n \in Arg("addr_num", {2}),
                        o \in Opt("addr_off", {1, KEY_INDEX_MAX_VAL - 2,
                                               KEY_INDEX_MAX_VAL - 1})}
    \cup {Merge(n, o) : n \in Arg("addr_num", {0}),
                        o \in Arg("addr_off", {KEY_INDEX_MAX_VAL})}

\* account and change indices, valid and not, over a short range and over
\* a rejected one
PathArgs ==
    {Merge(Merge(a, c), n) :
        a \in Opt("acc_idx", {-1, 1}), c \in Opt("change_idx", {"CHAIN_INT", "int_0"}),
        n \in Arg("addr_num", {2})}
    \cup {Merge(c, n) : c \in Arg("change_idx", {"int_0"}), n \in Arg("addr_num", {-1})}

\* every argument given, with the value it has when left out
DefaultArgs ==
    {Merge(Merge(a, c), Merge(n, o)) :
        a \in Arg("acc_idx", {0}), c \in Arg("change_idx", {"CHAIN_EXT"}),
        n \in Arg("addr_num", {20}), o \in Arg("addr_off", {0})}

Kwargs == RangeArgs \cup PathArgs \cup DefaultArgs

----------------------------------------------------------------------------
(* The state machine *)

Self == [m_bip_obj |-> m_bip_obj, m_data |-> m_data]

\* the state after HdWalletBip(c)
Constructed(c) ==
    /\ ctor = c
    /\ m_bip_obj = HdWalletBip(c).m_bip_obj
    /\ m_data = HdWalletBip(c).m_data
    /\ last_kwargs = NoArgs
    /\ last_err = "none"
    /\ last_nderiv = 0
    /\ last_visited = <<>>
    /\ all_ok = TRUE
    /\ watch_only_ret = <<>>

Init == \E c \in CtorArgs : Constructed(c)

InitNamed == \E c \in NamedCtorArgs : Constructed(c)

GenerateCall ==
    \E kwargs \in Kwargs :
        LET f == Generate(Self, kwargs)
        IN /\ m_bip_obj' = f.self.m_bip_obj
           /\ m_data' = f.self.m_data
           /\ last_kwargs' = kwargs
           /\ last_err' = f.err
           /\ last_nderiv' = f.nderiv
           /\ last_visited' = f.visited
           /\ all_ok' = (all_ok /\ f.err = "ok")
           /\ UNCHANGED <<ctor, watch_only_ret>>

IsWatchOnlyCall ==
    /\ watch_only_ret' = <<IsWatchOnly(Self)>>
    /\ UNCHANGED <<m_bip_obj, m_data, ctor, last_kwargs, last_err, last_nderiv, last_visited,
                   all_ok>>

Next == GenerateCall \/ IsWatchOnlyCall

Spec == Init /\ [][Next]_vars

\* the same wallet, constructed with and without mnemonic, passphrase and seed
SpecNamed == InitNamed /\ [][Next]_vars

----------------------------------------------------------------------------
(* Properties *)

\* the parameters of the last Generate call
Params == GetParameters(last_kwargs)

Has(k) == k \in DOMAIN m_data

Rejected == last_err \in {"TypeError", "ValueError"}

Failed == last_err \notin {"none", "ok"}

StartKey == ctor.bip_obj

\* the address entries are the children addr_off .. addr_off + addr_num - 1
\* of the stored change key, in ascending order
AddressesAreRange(addr_num, addr_off) ==
    /\ Has("address") /\ Has("change_key")
    /\ Len(m_data["address"]) = addr_num
    /\ \A n \in 1..Len(m_data["address"]) :
         LET e == m_data["address"][n]
         IN /\ e.index = addr_off + n - 1
            /\ e.parent = m_data["change_key"].pub_key
            /\ e.keys.pub_key = [seed |-> e.parent.seed, level |-> ADDRESS_INDEX,
                                 depth |-> e.parent.depth + 1,
                                 path |-> Append(e.parent.path, e.index)]

AddressesNonHardened ==
    Has("address") /\ \A n \in 1..Len(m_data["address"]) : ~IsHardened(m_data["address"][n].index)

\* C1: a Generate call that fails, for whatever reason, leaves the stored
\* data exactly as it was before the call.
C1_FailedGenerateLeavesData == [][Failed' => m_data' = m_data]_vars

\* C2: after any sequence of successful Generate calls the stored data is
\* the data one Generate call with the last arguments produces on a freshly
\* constructed wallet.
C2_RegenerateOverwrites ==
    (all_ok /\ last_err = "ok") =>
        m_data = Generate(HdWalletBip(ctor), last_kwargs).self.m_data

\* C3: a call that reaches the range check (its change_idx is a member of
\* HdWalletBipChanges, as in Generate(addr_num=N, addr_off=O)) is rejected
\* with the range error iff N < 0, or O < 0, or O + N > KEY_INDEX_MAX_VAL,
\* at every level of the starting key.
C3_RangeCheck ==
    (last_err # "none" /\ Params.change_idx \in HdWalletBipChanges) =>
        (last_err = "ValueError" <=>
            (Params.addr_num < 0 \/ Params.addr_off < 0
             \/ Params.addr_off + Params.addr_num > KEY_INDEX_MAX_VAL))

\* C3 witness: a range that meets the bound exactly passed the check
C3_Witness ==
    /\ last_err \notin {"none", "TypeError", "ValueError"}
    /\ Params.addr_num > 0
    /\ Params.addr_off + Params.addr_num = KEY_INDEX_MAX_VAL

\* C4 as stated: every call the range check does not reject produces
\* exactly N entries, indices O .. O+N-1 ascending, each a non-hardened
\* child of the change-level key.
C4_Original ==
    (last_err # "none" /\ ~Rejected) =>
        (AddressesAreRange(Params.addr_num, Params.addr_off) /\ AddressesNonHardened)

\* C4 amended: every Generate call that succeeds on a wallet whose starting
\* key is at CHANGE level or above stores exactly N entries, indices
\* O .. O+N-1 ascending, each the child of the change-level key at its
\* index; the child is non-hardened when its index is below the hardened bit.
C4_SuccessfulRange ==
    (last_err = "ok" /\ StartKey.level <= CHANGE) =>
        /\ AddressesAreRange(Params.addr_num, Params.addr_off)
        /\ \A n \in 1..Len(m_data["address"]) :
             LET e == m_data["address"][n]
             IN e.index < KEY_INDEX_HARDENED_BIT
                    => ~IsHardened(e.keys.pub_key.path[Len(e.keys.pub_key.path)])

\* C4 witness: a successful range with a non-zero offset
C4_Witness ==
    /\ last_err = "ok" /\ StartKey.level <= CHANGE
    /\ Params.addr_num = 2 /\ Params.addr_off = 1
    /\ Len(m_data["address"]) = 2

\* C5: a call rejected by the parameter validation made no derivation and
\* wrote nothing to the data.
C5_ValidationFirst == [][Rejected' => (m_data' = m_data /\ last_nderiv' = 0)]_vars

\* C5 witness: a rejected call on a wallet that holds generated data
C5_Witness == Rejected /\ Has("address") /\ Has("master_key")

\* C7: IsWatchOnly() is true iff the key given to the constructor had no
\* private material, and the stored key is always the constructor's.
C7_WatchOnlyIsStartKey ==
    /\ IsWatchOnly(Self) = StartKey.pub
    /\ m_bip_obj = StartKey
    /\ (watch_only_ret # <<>> => watch_only_ret[1] = StartKey.pub)

\* C7 witness: IsWatchOnly() was called after successful and failed calls
\* that walked down from the master key
C7_Witness ==
    /\ watch_only_ret # <<>> /\ last_err = "ok" /\ ~all_ok
    /\ StartKey.level = MASTER

\* C8: a wallet constructed from a public-only key is watch-only and after
\* a successful Generate no stored level key and no address entry has
\* private material.
C8_WatchOnlyPropagation ==
    StartKey.pub =>
        /\ IsWatchOnly(Self)
        /\ (watch_only_ret # <<>> => watch_only_ret[1])
        /\ (last_err = "ok" =>
              /\ \A k \in LevelKeyNames \cap DOMAIN m_data : ~HasPrivate(m_data[k])
              /\ Has("address")
              /\ \A n \in 1..Len(m_data["address"]) : ~HasPrivate(m_data["address"][n].keys))

\* C8 witness: a watch-only wallet generated level keys and addresses
C8_Witness ==
    /\ StartKey.pub /\ last_err = "ok" /\ watch_only_ret # <<>>
    /\ Has("account_key") /\ Has("change_key")
    /\ Len(m_data["address"]) >= 2

C10_SingleAddress ==
    (StartKey.level = ADDRESS_INDEX /\ last_err = "ok") =>
        /\ Has("address")
        /\ Len(m_data["address"]) = 1
        /\ m_data["address"][1].index = 0
        /\ m_data["address"][1].keys = HdWalletBipKeys(StartKey)
        /\ DOMAIN m_data \cap (GenerateKeys \ {"address"}) = {}

\* C10 witness: a range was asked of a wallet at ADDRESS_INDEX level
C10_Witness ==
    /\ StartKey.level = ADDRESS_INDEX /\ last_err = "ok"
    /\ Params.addr_num = 2 /\ Params.addr_off = 1
    /\ Has("address")

\* the keyword arguments with every omitted one given explicitly as
\* acc_idx=0, change_idx=CHAIN_EXT, addr_num=20, addr_off=0
WithDefaults(kwargs) ==
    Merge(kwargs, [acc_idx |-> 0, change_idx |-> "CHAIN_EXT", addr_num |-> 20, addr_off |-> 0])

\* a step that is a Generate call (IsWatchOnly changes none of these)
GenerateStep == last_kwargs' # last_kwargs \/ last_err' # last_err \/ m_data' # m_data

\* C11: a Generate call ends as the call that gives every argument it
\* omits explicitly as acc_idx=0, change_idx=CHAIN_EXT, addr_num=20,
\* addr_off=0 ends: same outcome, same wallet data.
C11_DefaultArguments ==
    [][GenerateStep =>
         LET f == Generate(Self, WithDefaults(last_kwargs'))
         IN m_data' = f.self.m_data /\ last_err' = f.err]_vars

\* C11 witness: Generate() without arguments stored the twenty addresses
\* 0 .. 19 of account 0, external chain
C11_Witness ==
    /\ last_kwargs = NoArgs /\ last_err = "ok" /\ StartKey.level = MASTER
    /\ m_data["account_idx"] = 0 /\ m_data["change_idx"] = 0
    /\ ~Has("address_off") /\ Len(m_data["address"]) = 20

\* the levels from the starting key's down to CHANGE, in order
WalkLevels == [i \in 1..(CHANGE - StartKey.level + 1) |-> StartKey.level + i - 1]

\* key is a child of parent: the same seed, one level down, one index more
IsChildOf(key, parent) ==
    /\ key.seed = parent.seed
    /\ key.level = parent.level + 1
    /\ Len(key.path) = Len(parent.path) + 1
    /\ SubSeq(key.path, 1, Len(parent.path)) = parent.path

\* C12: from a starting key at level L <= CHANGE no key of a level above L
\* is ever stored, and a successful Generate captures the keys of L, L+1,
\* ..., CHANGE in that order, each level once, stores exactly those, the
\* first being the starting key and each next the child of the one before.
C12_ForwardWalk ==
    StartKey.level <= CHANGE =>
        /\ \A l \in MASTER..(StartKey.level - 1) : ~Has(LevelKeyName(l))
        /\ (last_err = "ok" =>
              /\ [i \in 1..Len(last_visited) |-> last_visited[i].level] = WalkLevels
              /\ LevelKeyNames \cap DOMAIN m_data
                    = {LevelKeyName(l) : l \in StartKey.level..CHANGE}
              /\ m_data[LevelKeyName(StartKey.level)] = HdWalletBipKeys(StartKey)
              /\ \A l \in (StartKey.level + 1)..CHANGE :
                    IsChildOf(m_data[LevelKeyName(l)].pub_key,
                              m_data[LevelKeyName(l - 1)].pub_key))

\* C12 witness: a walk from an imported account key
C12_Witness ==
    /\ last_err = "ok" /\ StartKey.level = ACCOUNT
    /\ Len(last_visited) = 2 /\ last_visited[1].level = ACCOUNT
    /\ Has("account_key") /\ Has("change_key") /\ ~Has("coin_key")

\* the greatest number of derivation steps on one chain: from MASTER to
\* ADDRESS_INDEX
WalkSteps == ADDRESS_INDEX - MASTER

\* C13: each key Generate captures after the first is the child of the one
\* captured before it and one deeper; after a successful walk to CHANGE
\* each address key is one deeper than the change key; every depth is at
\* most the starting depth plus the steps taken, at most 5 and so at most
\* KEY_DEPTH_MAX.
C13_DepthMonotonic ==
    /\ \A i \in 1..Len(last_visited) :
         /\ last_visited[i].depth <= KEY_DEPTH_MAX
         /\ last_visited[i].depth = StartKey.depth + i - 1
         /\ last_visited[i].depth <= WalkSteps
         /\ i > 1 => /\ IsChildOf(last_visited[i], last_visited[i - 1])
                     /\ last_visited[i].depth = last_visited[i - 1].depth + 1
    /\ (last_err = "ok" /\ StartKey.level <= CHANGE) =>
         /\ Len(last_visited) >= 1
         /\ last_nderiv = Len(last_visited) - 1 + Len(m_data["address"])
         /\ \A n \in 1..Len(m_data["address"]) :
              LET k == m_data["address"][n].keys.pub_key
              IN /\ IsChildOf(k, last_visited[Len(last_visited)])
                 /\ k.depth = last_visited[Len(last_visited)].depth + 1
                 /\ k.depth <= WalkSteps /\ k.depth <= KEY_DEPTH_MAX

\* C13 witness: five steps from the master key of depth 0 to addresses of
\* depth 5
C13_Witness ==
    /\ last_err = "ok" /\ StartKey.level = MASTER /\ StartKey.depth = 0
    /\ Len(last_visited) = 5 /\ last_visited[5].depth = 4
    /\ Len(m_data["address"]) >= 2
    /\ m_data["address"][2].keys.pub_key.depth = 5

\* C14: a change_idx that is no member of HdWalletBipChanges makes the call
\* fail with the change-type error, whatever addr_num and addr_off are and
\* at every level of the starting key, before anything is derived.
C14_ChangeTypeFirst ==
    (last_err # "none" /\ Params.change_idx \notin HdWalletBipChanges) =>
        (last_err = "TypeError" /\ last_nderiv = 0 /\ last_visited = <<>>)

\* C14 witness: a bad change_idx with a negative addr_num, on a wallet at
\* ADDRESS_INDEX level
C14_Witness ==
    /\ last_err = "TypeError" /\ StartKey.level = ADDRESS_INDEX
    /\ Params.change_idx \notin HdWalletBipChanges /\ Params.addr_num < 0

\* C15: after a successful Generate on a freshly constructed wallet,
\* account_idx is stored iff the starting level is MASTER, PURPOSE or COIN
\* and is acc_idx; change_idx is stored iff the starting level is ACCOUNT or
\* above and is int(change_idx); address_off is stored iff the starting
\* level is CHANGE or above and addr_off # 0, and is addr_off.
C15_OptionalIndexFields ==
    [][(last_err = "none" /\ last_err' = "ok") =>
         LET p == GetParameters(last_kwargs')
             d == m_data'
             L == ctor.bip_obj.level
         IN /\ ("account_idx" \in DOMAIN d) <=> (L <= COIN)
            /\ ("account_idx" \in DOMAIN d) => d["account_idx"] = p.acc_idx
            /\ ("change_idx" \in DOMAIN d) <=> (L <= ACCOUNT)
            /\ ("change_idx" \in DOMAIN d) => d["change_idx"] = IntOfChange(p.change_idx)
            /\ ("address_off" \in DOMAIN d) <=> (L <= CHANGE /\ p.addr_off # 0)
            /\ ("address_off" \in DOMAIN d) => d["address_off"] = p.addr_off]_vars

\* C15 witness: an imported account key, a range with an offset: change_idx
\* and address_off are stored, account_idx is not
C15_Witness ==
    /\ last_err = "ok" /\ all_ok /\ StartKey.level = ACCOUNT
    /\ Params.addr_off = 1
    /\ Has("change_idx") /\ Has("address_off") /\ ~Has("account_idx")
    /\ m_data["address_off"] = 1

\* the dictionary keys the constructor writes
InitKeys == {"wallet_name", "spec_name", "coin_name", "mnemonic", "passphrase", "seed_bytes"}

\* C16: no step changes or removes an entry of wallet_name, spec_name,
\* coin_name, mnemonic, passphrase or seed_bytes, nor the stored key; the
\* only entries a step adds or changes are the level keys, account_idx,
\* change_idx, address_off and address.
C16_GenerateFrame ==
    [][/\ m_bip_obj' = m_bip_obj
       /\ DOMAIN m_data \subseteq DOMAIN m_data'
       /\ \A k \in DOMAIN m_data' :
            (k \notin DOMAIN m_data \/ m_data'[k] # m_data[k]) => k \in GenerateKeys
       /\ \A k \in InitKeys \cap DOMAIN m_data : m_data'[k] = m_data[k]]_vars

\* C16 witness: a wallet with mnemonic, passphrase and seed after failed
\* and successful Generate calls
C16_Witness ==
    /\ last_err = "ok" /\ ~all_ok /\ Has("address") /\ Has("master_key")
    /\ Has("mnemonic") /\ Has("passphrase") /\ Has("seed_bytes")
    /\ m_data["wallet_name"] = ctor.wallet_name

\* C17: in every state wallet_name, spec_name and coin_name are present;
\* mnemonic and passphrase are present exactly when the constructor got a
\* non-empty mnemonic, whatever the passphrase; seed_bytes is present
\* exactly when it got a non-empty seed, as lowercase hex.
C17_ConstructorFields ==
    /\ {"wallet_name", "spec_name", "coin_name"} \subseteq DOMAIN m_data
    /\ m_data["wallet_name"] = ctor.wallet_name
    /\ m_data["spec_name"] = ctor.bip_obj.spec_name
    /\ m_data["coin_name"] = "Bitcoin (BTC)"
    /\ Has("passphrase") <=> Has("mnemonic")
    /\ Has("mnemonic") <=> ctor.mnemonic # ""
    /\ Has("mnemonic") =>
         (m_data["mnemonic"] = ctor.mnemonic /\ m_data["passphrase"] = ctor.passphrase)
    /\ Has("seed_bytes") <=> ctor.seed_bytes # <<>>
    /\ ctor.seed_bytes = <<0, 171>> => m_data["seed_bytes"] = "00ab"

\* C17 witness: an empty passphrase stored with a mnemonic, after a Generate call
C17_Witness ==
    /\ ctor.mnemonic # "" /\ ctor.passphrase = "" /\ ctor.seed_bytes # <<>>
    /\ Has("passphrase") /\ m_data["passphrase"] = ""
    /\ last_err = "ok"

====
